---- MODULE Spec2Model ----
(***************************************************************************)
(* The expense record store of src/lib/storage.ts.                         *)
(*                                                                         *)
(* The persisted state is the text held under one localStorage key.  Every *)
(* store operation reads the whole list (getExpenses), changes it in       *)
(* memory and writes the whole list back (saveExpenses).  The model keeps  *)
(* the payload itself, so that an absent key, unparseable text, a JSON     *)
(* value that is no array and array elements without a note are states of  *)
(* the store like any other.                                               *)
(*                                                                         *)
(* Time is counted in hours since the epoch.  An ISO string               *)
(* "YYYY-MM-DDTHH:..Z" is the record [date, hour] of the UTC calendar day  *)
(* and the hour within it; toISOString and DateParse convert.              *)
(*                                                                         *)
(* crypto.randomUUID() draws 122 random bits.  The model takes the         *)
(* generator at its contract: the value it returns has never been returned *)
(* before and is carried by no record that was ever stored (used).         *)
(*                                                                         *)
(* The codec (parseCSV, exportToCSV), the views (groupExpensesByDay,        *)
(* groupByPeriod) and the component ExpenseTracker, whose handlers call    *)
(* the store and the codec, follow the store.                              *)
(***************************************************************************)
EXTENDS Integers, Sequences, FiniteSets, TLC

VARIABLES
    storage,    \* the payload under the key "expense_tracker_expenses"
    now,        \* the clock read by new Date(), in hours since the epoch
    used,       \* ids returned by randomUUID or ever seen in the payload
    last,       \* the last call: the operation, the id it was given and
                \* what it returned
    input,      \* what the codec and the views are called with in this
                \* run: the local time zone and the records or the text
    ui          \* the state of the component ExpenseTracker

vars == <<storage, now, used, last, input, ui>>

---------------------------------------------------------------------------
\* Bounds of the exploration.

MaxLen == 2         \* longest list a call may produce
MaxRows == 2        \* most rows in one importExpenses call
MaxClock == 1       \* hours the clock advances
MaxIds == 2         \* ids the generator can hand out

---------------------------------------------------------------------------
\* types.ts

CATEGORIES ==
    << "food", "entertainment", "transportation", "groceries", "shopping",
       "others", "sports", "necessities", "travelling", "sasha" >>

Category == { CATEGORIES[i] : i \in 1..Len(CATEGORIES) }

Fields == { "amount", "category", "note" }

\* The {amount, category, note} triples callers pass in.  The store checks
\* none of them, so a zero amount and an empty note are among them.
FieldInputs ==
    { [amount |-> 80, category |-> "food",   note |-> "Lunch"],
      [amount |-> 0,  category |-> "others", note |-> ""] }

Ids == 1..MaxIds

---------------------------------------------------------------------------
\* Date

HoursPerDay == 24

\* Date.prototype.toISOString: the UTC calendar day and the time within it.
toISOString(t) == [date |-> t \div HoursPerDay, hour |-> t % HoursPerDay]

\* new Date(iso).getTime()
DateParse(iso) == iso.date * HoursPerDay + iso.hour

\* The clock starts on day 1 at 09:00 UTC.
StartClock == HoursPerDay + 9

\* createdAt values of imported rows: noon of day 0 (in the past of every
\* clock value) and noon of day 1 (ahead of the clock).
RowTimes == { toISOString(12), toISOString(HoursPerDay + 12) }

---------------------------------------------------------------------------
\* The payload and JSON

\* typeof window !== "undefined": the store runs in the browser.
HasWindow == TRUE

\* JSON null, and the null returned by updateExpense.
Null == [null |-> TRUE]

\* The key was never written: localStorage.getItem returns null.
NoItem == [kind |-> "absent"]

\* JSON.stringify of a list of records: a JSON array.  A record whose note
\* is undefined is written without the note key.
JSONstringify(expenses) == [kind |-> "array", items |-> expenses]

\* An array element read back without a note key.
WithoutNote(e) == [k \in (DOMAIN e) \ {"note"} |-> e[k]]

\* e.note ?? ""
NoteOrEmpty(e) == IF "note" \in DOMAIN e THEN e.note ELSE ""

\* Normalize without the default: the element as it was parsed.
NormalizeKeepsAbsent(e) == e

\* { ...e, note: e.note ?? "" }: a copy of e, which is e itself when e has a
\* note, and e with the note "" added when it has none.
Normalize(e) ==
    IF "note" \in DOMAIN e THEN [e EXCEPT !.note = NoteOrEmpty(e)]
    ELSE [k \in (DOMAIN e) \cup {"note"} |-> IF k = "note" THEN NoteOrEmpty(e) ELSE e[k]]

\* getExpenses: [] when there is no window, when the item is absent or the
\* empty string (!raw), when JSON.parse throws, when the parsed value is no
\* array, and when the map callback throws on a null element (e.note of
\* null is a TypeError, caught by the same catch).
getExpenses(raw) ==
    IF ~HasWindow THEN << >>
    ELSE IF raw.kind \in {"absent", "empty"} THEN << >>
    ELSE IF raw.kind = "garbage" THEN << >>
    ELSE IF raw.kind # "array" THEN << >>
    ELSE IF \E i \in 1..Len(raw.items) : raw.items[i] = Null THEN << >>
    ELSE [i \in 1..Len(raw.items) |-> Normalize(raw.items[i])]

\* saveExpenses: the payload after the call.
saveExpenses(raw, expenses) ==
    IF ~HasWindow THEN raw ELSE JSONstringify(expenses)

---------------------------------------------------------------------------
\* Helpers of the store operations

IdsOf(list) == { list[i].id : i \in 1..Len(list) }

\* randomUUID seeded the same way on every call: it repeats itself.
randomUUIDRepeats(inUse) == CHOOSE i \in Ids : \A j \in Ids : i <= j

\* crypto.randomUUID(): an id that is not in use.
randomUUID(inUse) == CHOOSE i \in Ids \ inUse : \A j \in Ids \ inUse : i <= j

\* One randomUUID() call made outside the map and shared by every row.
RECURSIVE randomUUIDsShared(_, _)
randomUUIDsShared(inUse, n) ==
    IF n = 0 THEN << >>
    ELSE <<CHOOSE i \in Ids \ inUse : \A j \in Ids \ inUse : i <= j>>
            \o randomUUIDsShared(inUse, n - 1)

\* n successive randomUUID() calls.
RECURSIVE randomUUIDs(_, _)
randomUUIDs(inUse, n) ==
    IF n = 0 THEN << >>
    ELSE LET id == randomUUID(inUse)
         IN  <<id>> \o randomUUIDs(inUse \cup {id}, n - 1)

\* expenses.findIndex((e) => e.id === id); 0 stands for -1.
findIndex(expenses, id) ==
    IF \E i \in 1..Len(expenses) : expenses[i].id = id
    THEN CHOOSE i \in 1..Len(expenses) :
            /\ expenses[i].id = id
            /\ \A j \in 1..(i - 1) : expenses[j].id # id
    ELSE 0

\* { ...e, ...updates }
spread(e, updates) ==
    [k \in (DOMAIN e) \cup (DOMAIN updates) |->
        IF k \in DOMAIN updates THEN updates[k] ELSE e[k]]

\* The filter with its test inverted: (e) => e.id === id.
RECURSIVE filterOutInverted(_, _)
filterOutInverted(expenses, id) ==
    IF expenses = << >> THEN << >>
    ELSE IF Head(expenses).id # id THEN filterOutInverted(Tail(expenses), id)
    ELSE <<Head(expenses)>> \o filterOutInverted(Tail(expenses), id)

\* expenses.filter((e) => e.id !== id)
RECURSIVE filterOut(_, _)
filterOut(expenses, id) ==
    IF expenses = << >> THEN << >>
    ELSE IF Head(expenses).id = id THEN filterOut(Tail(expenses), id)
    ELSE <<Head(expenses)>> \o filterOut(Tail(expenses), id)

\* The comparator with its operands exchanged: the oldest record goes first.
compareOldestFirst(a, b) == DateParse(a.createdAt) - DateParse(b.createdAt)

\* The comparator of importExpenses: negative when a goes first.
compareCreatedAt(a, b) == DateParse(b.createdAt) - DateParse(a.createdAt)

\* Array.prototype.sort is stable: an element goes behind every element it
\* does not have to precede.
RECURSIVE insertSorted(_, _)
insertSorted(sorted, e) ==
    IF sorted = << >> THEN <<e>>
    ELSE IF compareCreatedAt(Head(sorted), e) <= 0
         THEN <<Head(sorted)>> \o insertSorted(Tail(sorted), e)
         ELSE <<e>> \o sorted

RECURSIVE sortByCreatedAt(_)
sortByCreatedAt(list) ==
    IF list = << >> THEN << >>
    ELSE insertSorted(sortByCreatedAt(SubSeq(list, 1, Len(list) - 1)), list[Len(list)])

---------------------------------------------------------------------------
\* Inputs

\* Partial<Pick<Expense, "amount" | "category" | "note">>
Updates == { [k \in S |-> f[k]] : f \in FieldInputs, S \in SUBSET Fields }

Rows ==
    { [amount |-> f.amount, category |-> f.category, note |-> f.note, createdAt |-> t] :
        f \in FieldInputs, t \in RowTimes }

RECURSIVE SeqsUpTo(_, _)
SeqsUpTo(S, n) ==
    IF n = 0 THEN { << >> }
    ELSE LET shorter == SeqsUpTo(S, n - 1)
         IN  shorter \cup { Append(s, x) : s \in { q \in shorter : Len(q) = n - 1 }, x \in S }

RowSeqs == SeqsUpTo(Rows, MaxRows)

\* Records a caller may hand to saveExpenses: it checks nothing, so the
\* caller may repeat an id the store handed out, and pass any amount.
ReplaceRecords(ids) ==
    { [id |-> i, amount |-> a, category |-> "food", note |-> "Lunch",
       createdAt |-> toISOString(StartClock)] : i \in ids, a \in {0, 5} }

\* Payloads found under the key when the page loads: nothing, text that is
\* no JSON, a JSON object, and arrays written by an earlier version, whose
\* records have no note, or holding a null.
LegacyRecords ==
    { [id |-> 1, amount |-> 5, category |-> "food", note |-> "Lunch",
       createdAt |-> toISOString(12)],
      WithoutNote([id |-> 2, amount |-> 80, category |-> "others", note |-> "",
                   createdAt |-> toISOString(12)]) }

Payloads ==
    { NoItem, [kind |-> "empty"], [kind |-> "garbage"], [kind |-> "object"] }
    \cup { [kind |-> "array", items |-> q] :
             q \in { q \in SeqsUpTo(LegacyRecords \cup {Null}, 2) :
                        \A i, j \in 1..Len(q) : (i # j /\ q[i] # Null) => q[i] # q[j] } }

\* Ids handed out before the page was loaded.
OldIds == { MaxIds + 1, MaxIds + 2 }

\* Records an earlier session left under the key, of any age.
OldRecords ==
    { [id |-> i, amount |-> 5, category |-> "food", note |-> "Lunch",
       createdAt |-> t] :
        i \in OldIds,
        t \in RowTimes \cup { toISOString(StartClock - HoursPerDay),
                              toISOString(StartClock) } }

\* The lists an earlier session may have left, in any order: an add after
\* an import of a row dated ahead of the clock leaves the older record first.
OldPayloads ==
    { [kind |-> "array", items |-> q] :
        q \in { q \in SeqsUpTo(OldRecords, 2) :
                   \A i, j \in 1..Len(q) : i # j => q[i].id # q[j].id } }

PayloadIds(raw) ==
    IF raw.kind # "array" THEN {}
    ELSE { raw.items[i].id : i \in { j \in 1..Len(raw.items) : raw.items[j] # Null } }

---------------------------------------------------------------------------
\* The store operations

\* The store operations take no input of the codec or of the views.
NoInput == [kind |-> "none"]

\* useState(null) of editingId: no record is being edited.  The ids are
\* 1..MaxIds, so 0 is none of them.
NoEdit == 0

\* useState(null) of importMessage.
NoMessage == [type |-> "none"]

\* The component as its useState calls make it, before its effect has run.
\* Where no component is rendered it stays so.
NotMounted ==
    [ mounted |-> FALSE, expenses |-> << >>, editingId |-> NoEdit,
      importMessage |-> NoMessage ]

Init ==
    /\ storage = NoItem
    /\ now = StartClock
    /\ used = {}
    /\ last = [op |-> "init"]
    /\ input = NoInput
    /\ ui = NotMounted

InitPayload ==
    /\ storage \in Payloads
    /\ now = StartClock
    /\ used = PayloadIds(storage)
    /\ last = [op |-> "init"]
    /\ input = NoInput
    /\ ui = NotMounted

\* list()
list ==
    /\ last' = [op |-> "list", ret |-> getExpenses(storage)]
    /\ UNCHANGED <<storage, now, used, input, ui>>

\* replaceAll(records)
replaceAll(expenses) ==
    /\ storage' = saveExpenses(storage, expenses)
    /\ last' = [op |-> "replaceAll"]
    /\ UNCHANGED <<now, used, input, ui>>

\* addExpense saving [...expenses, newExpense]: the new record goes last.
addExpenseAtEnd(expense) ==
    LET expenses == getExpenses(storage)
        newExpense == spread(expense, [id |-> randomUUID(used),
                                       createdAt |-> toISOString(now)])
    IN  /\ Len(expenses) < MaxLen
        /\ Ids \ used # {}
        /\ storage' = saveExpenses(storage, expenses \o <<newExpense>>)
        /\ used' = used \cup {newExpense.id}
        /\ last' = [op |-> "add", ret |-> newExpense]
        /\ UNCHANGED <<now, input>>

\* addExpense working on the list the page loaded at its start, the empty
\* one, in the place of the list it reads: [newExpense, ...snapshot].
addExpenseOntoSnapshot(expense) ==
    LET expenses == getExpenses(storage)
        newExpense == spread(expense, [id |-> randomUUID(used),
                                       createdAt |-> toISOString(now)])
    IN  /\ Len(expenses) < MaxLen
        /\ Ids \ used # {}
        /\ storage' = saveExpenses(storage, <<newExpense>>)
        /\ used' = used \cup {newExpense.id}
        /\ last' = [op |-> "add", ret |-> newExpense]
        /\ UNCHANGED <<now, input>>

addExpense(expense) ==
    LET expenses == getExpenses(storage)
        newExpense == spread(expense, [id |-> randomUUID(used),
                                       createdAt |-> toISOString(now)])
    IN  /\ Len(expenses) < MaxLen
        /\ Ids \ used # {}
        /\ storage' = saveExpenses(storage, <<newExpense>> \o expenses)
        /\ used' = used \cup {newExpense.id}
        /\ last' = [op |-> "add", ret |-> newExpense]
        /\ UNCHANGED <<now, input>>

\* updateExpense stamping the edit: createdAt becomes the time of the edit.
updateExpenseStamps(id, updates) ==
    LET expenses == getExpenses(storage)
        index == findIndex(expenses, id)
    IN  IF index = 0
        THEN /\ last' = [op |-> "update", id |-> id, ret |-> Null]
             /\ UNCHANGED <<storage, now, used, input>>
        ELSE LET updated == spread(spread(expenses[index], updates),
                                   [createdAt |-> toISOString(now)])
                 next == [expenses EXCEPT ![index] = updated]
             IN  /\ storage' = saveExpenses(storage, next)
                 /\ last' = [op |-> "update", id |-> id, ret |-> updated]
                 /\ UNCHANGED <<now, used, input>>

\* updateExpense without the early return: it saves what it read.
updateExpenseAlwaysSaves(id, updates) ==
    LET expenses == getExpenses(storage)
        index == findIndex(expenses, id)
    IN  IF index = 0
        THEN /\ storage' = saveExpenses(storage, expenses)
             /\ last' = [op |-> "update", id |-> id, ret |-> Null]
             /\ UNCHANGED <<now, used, input>>
        ELSE LET updated == spread(expenses[index], updates)
                 next == [expenses EXCEPT ![index] = updated]
             IN  /\ storage' = saveExpenses(storage, next)
                 /\ last' = [op |-> "update", id |-> id, ret |-> updated]
                 /\ UNCHANGED <<now, used, input>>

\* updateExpense merging into defaults instead of the stored record:
\* { amount: 0, category: "others", note: "", ...updates }.
updateExpenseFromDefaults(id, updates) ==
    LET expenses == getExpenses(storage)
        index == findIndex(expenses, id)
    IN  IF index = 0
        THEN /\ last' = [op |-> "update", id |-> id, ret |-> Null]
             /\ UNCHANGED <<storage, now, used, input>>
        ELSE LET updated == spread([id |-> id, amount |-> 0, category |-> "others",
                                    note |-> "",
                                    createdAt |-> expenses[index].createdAt], updates)
                 next == [expenses EXCEPT ![index] = updated]
             IN  /\ storage' = saveExpenses(storage, next)
                 /\ last' = [op |-> "update", id |-> id, ret |-> updated]
                 /\ UNCHANGED <<now, used, input>>

\* updateExpense as an upsert: an unknown id gets a record of its own.
updateExpenseUpserts(id, updates) ==
    LET expenses == getExpenses(storage)
        index == findIndex(expenses, id)
    IN  IF index = 0
        THEN LET created == spread([id |-> id, amount |-> 0, category |-> "others",
                                    note |-> "", createdAt |-> toISOString(now)],
                                   updates)
             IN  /\ Len(expenses) < MaxLen
                 /\ storage' = saveExpenses(storage, <<created>> \o expenses)
                 /\ last' = [op |-> "update", id |-> id, ret |-> created]
                 /\ UNCHANGED <<now, used, input>>
        ELSE LET updated == spread(expenses[index], updates)
                 next == [expenses EXCEPT ![index] = updated]
             IN  /\ storage' = saveExpenses(storage, next)
                 /\ last' = [op |-> "update", id |-> id, ret |-> updated]
                 /\ UNCHANGED <<now, used, input>>

updateExpense(id, updates) ==
    LET expenses == getExpenses(storage)
        index == findIndex(expenses, id)
    IN  IF index = 0
        THEN /\ last' = [op |-> "update", id |-> id, ret |-> Null]
             /\ UNCHANGED <<storage, now, used, input>>
        ELSE LET updated == spread(expenses[index], updates)
                 next == [expenses EXCEPT ![index] = updated]
             IN  /\ storage' = saveExpenses(storage, next)
                 /\ last' = [op |-> "update", id |-> id, ret |-> updated]
                 /\ UNCHANGED <<now, used, input>>

deleteExpense(id) ==
    LET expenses == filterOut(getExpenses(storage), id)
    IN  IF Len(expenses) = Len(getExpenses(storage))
        THEN /\ last' = [op |-> "delete", id |-> id, ret |-> FALSE]
             /\ UNCHANGED <<storage, now, used, input>>
        ELSE /\ storage' = saveExpenses(storage, expenses)
             /\ last' = [op |-> "delete", id |-> id, ret |-> TRUE]
             /\ UNCHANGED <<now, used, input>>

importExpenses(items) ==
    IF Len(items) = 0
    THEN /\ last' = [op |-> "import", ret |-> 0]
         /\ UNCHANGED <<storage, now, used, input>>
    ELSE LET existing == getExpenses(storage)
             ids == randomUUIDs(used, Len(items))
             newExpenses == [i \in 1..Len(items) |-> spread(items[i], [id |-> ids[i]])]
             merged == sortByCreatedAt(newExpenses \o existing)
         IN  /\ Len(existing) <= MaxLen
             /\ Cardinality(Ids \ used) >= Len(items)
             /\ storage' = saveExpenses(storage, merged)
             /\ used' = used \cup IdsOf(newExpenses)
             /\ last' = [op |-> "import", ret |-> Len(newExpenses)]
             /\ UNCHANGED <<now, input>>

\* The clock advances between calls.
Tick ==
    /\ now < StartClock + MaxClock
    /\ now' = now + 1
    /\ UNCHANGED <<storage, used, last, input, ui>>

\* The store operations are called with no component rendered.
NextCrud ==
    \/ list
    \/ \E expense \in FieldInputs : addExpense(expense) /\ UNCHANGED ui
    \/ \E id \in Ids, updates \in Updates : updateExpense(id, updates) /\ UNCHANGED ui
    \/ \E id \in Ids : deleteExpense(id) /\ UNCHANGED ui
    \/ \E items \in RowSeqs : importExpenses(items) /\ UNCHANGED ui
    \/ Tick

Next ==
    \/ NextCrud
    \/ \E expenses \in SeqsUpTo(ReplaceRecords(used), MaxLen) : replaceAll(expenses)

\* Every store operation, from an empty store.
Spec == Init /\ [][Next]_vars

\* add, update, delete, importBulk and list, from an empty store.
SpecCrud == Init /\ [][NextCrud]_vars

\* add, update, delete, importBulk and list, from whatever the page finds
\* under the key.
SpecPayload == InitPayload /\ [][NextCrud]_vars

InitImport ==
    /\ storage \in OldPayloads
    /\ now = StartClock
    /\ used = PayloadIds(storage)
    /\ last = [op |-> "init"]
    /\ input = NoInput
    /\ ui = NotMounted

NextImport ==
    \/ list
    \/ \E items \in RowSeqs : importExpenses(items) /\ UNCHANGED ui
    \/ Tick

\* importBulk and list, onto a list an earlier session left in any order.
SpecImport == InitImport /\ [][NextImport]_vars

---------------------------------------------------------------------------
\* Text
\*
\* The codec takes strings apart character by character, so the strings it
\* reads and writes are sequences of one-character strings.

Upper ==
    << "A", "B", "C", "D", "E", "F", "G", "H", "I", "J", "K", "L", "M",
       "N", "O", "P", "Q", "R", "S", "T", "U", "V", "W", "X", "Y", "Z" >>

Lower ==
    << "a", "b", "c", "d", "e", "f", "g", "h", "i", "j", "k", "l", "m",
       "n", "o", "p", "q", "r", "s", "t", "u", "v", "w", "x", "y", "z" >>

Digits == << "0", "1", "2", "3", "4", "5", "6", "7", "8", "9" >>

IsDigit(ch) == \E i \in 1..Len(Digits) : Digits[i] = ch

DigitValue(ch) == (CHOOSE i \in 1..Len(Digits) : Digits[i] = ch) - 1

\* White space as String.prototype.trim and the /\s/ class see it.
WhiteSpace == { " ", "\t", "\n", "\r" }

\* String.prototype.toLowerCase
toLowerCase(s) ==
    [i \in 1..Len(s) |->
        IF \E k \in 1..Len(Upper) : Upper[k] = s[i]
        THEN Lower[CHOOSE k \in 1..Len(Upper) : Upper[k] = s[i]]
        ELSE s[i]]

\* String.prototype.trim
trim(s) ==
    LET inner == { i \in 1..Len(s) : s[i] \notin WhiteSpace }
    IN  IF inner = {} THEN << >>
        ELSE SubSeq(s, CHOOSE i \in inner : \A j \in inner : i <= j,
                       CHOOSE i \in inner : \A j \in inner : i >= j)

\* String.prototype.includes
includes(s, sub) ==
    \E i \in 0..(Len(s) - Len(sub)) : SubSeq(s, i + 1, i + Len(sub)) = sub

\* Array.prototype.join
RECURSIVE join(_, _)
join(parts, sep) ==
    IF parts = << >> THEN << >>
    ELSE IF Len(parts) = 1 THEN parts[1]
    ELSE parts[1] \o sep \o join(Tail(parts), sep)

\* The characters of the category tags and of the other literals of the
\* codec.
Spell ==
    [ food           |-> << "f", "o", "o", "d" >>,
      entertainment  |-> << "e", "n", "t", "e", "r", "t", "a", "i", "n", "m", "e", "n", "t" >>,
      transportation |-> << "t", "r", "a", "n", "s", "p", "o", "r", "t", "a", "t", "i", "o", "n" >>,
      groceries      |-> << "g", "r", "o", "c", "e", "r", "i", "e", "s" >>,
      shopping       |-> << "s", "h", "o", "p", "p", "i", "n", "g" >>,
      others         |-> << "o", "t", "h", "e", "r", "s" >>,
      sports         |-> << "s", "p", "o", "r", "t", "s" >>,
      necessities    |-> << "n", "e", "c", "e", "s", "s", "i", "t", "i", "e", "s" >>,
      travelling     |-> << "t", "r", "a", "v", "e", "l", "l", "i", "n", "g" >>,
      sasha          |-> << "s", "a", "s", "h", "a" >>,
      date           |-> << "d", "a", "t", "e" >>,
      category       |-> << "c", "a", "t", "e", "g", "o", "r", "y" >>,
      note           |-> << "n", "o", "t", "e" >>,
      amount         |-> << "a", "m", "o", "u", "n", "t" >>,
      Imported       |-> << "I", "m", "p", "o", "r", "t", "e", "d" >>,
      constructor    |-> << "c", "o", "n", "s", "t", "r", "u", "c", "t", "o", "r" >>,
      proto          |-> << "_", "_", "p", "r", "o", "t", "o", "_", "_" >> ]

\* `${n}` for an integer n: its decimal digits, with a minus sign when n < 0.
RECURSIVE NaturalText(_)
NaturalText(n) ==
    IF n < 10 THEN << Digits[n + 1] >>
    ELSE NaturalText(n \div 10) \o << Digits[(n % 10) + 1] >>

NumberText(n) == IF n < 0 THEN << "-" >> \o NaturalText(0 - n) ELSE NaturalText(n)

\* String(n).padStart(width, "0") for n >= 0
RECURSIVE padStart(_, _)
padStart(s, width) == IF Len(s) >= width THEN s ELSE padStart(<< "0" >> \o s, width)

---------------------------------------------------------------------------
\* Calendar
\*
\* Date keeps an instant and reads it in the local time zone.  A time zone
\* is its offset from UTC in hours, fixed for the run; a calendar date is
\* <<year, month, day>>.

\* Hong Kong (the currency of the display), UTC, and Honolulu.
Offsets == { 8, 0, 0 - 10 }

DaysPerWeek == 7

\* The calendar date of the day that is n days after 1970-01-01.
CivilFromDays(n) ==
    LET z == n + 719468
        era == z \div 146097
        doe == z - era * 146097
        yoe == (doe - doe \div 1460 + doe \div 36524 - doe \div 146096) \div 365
        doy == doe - (365 * yoe + yoe \div 4 - yoe \div 100)
        mp == (5 * doy + 2) \div 153
        d == doy - (153 * mp + 2) \div 5 + 1
        m == IF mp < 10 THEN mp + 3 ELSE mp - 9
        y == yoe + era * 400 + (IF m <= 2 THEN 1 ELSE 0)
    IN  << y, m, d >>

\* The number of days from 1970-01-01 to the calendar date ymd.
DaysFromCivil(ymd) ==
    LET y == ymd[1] - (IF ymd[2] <= 2 THEN 1 ELSE 0)
        era == y \div 400
        yoe == y - era * 400
        mp == IF ymd[2] > 2 THEN ymd[2] - 3 ELSE ymd[2] + 9
        doy == (153 * mp + 2) \div 5 + ymd[3] - 1
        doe == yoe * 365 + yoe \div 4 - yoe \div 100 + doy
    IN  era * 146097 + doe - 719468

\* The local day an instant falls on, counted from 1970-01-01.
LocalDay(tz, t) == (t + tz) \div HoursPerDay

\* getFullYear(), getMonth() + 1, getDate()
LocalDate(tz, t) == CivilFromDays(LocalDay(tz, t))

\* getDay(): 0 for Sunday; 1970-01-01 was a Thursday.
getDay(tz, t) == (LocalDay(tz, t) + 4) % DaysPerWeek

\* new Date(year, monthIndex, day, 12, 0, 0): noon of that local day.
LocalNoon(tz, ymd) == DaysFromCivil(ymd) * HoursPerDay + 12 - tz

\* "YYYY-MM-DD"
DateText(ymd) ==
    padStart(NaturalText(ymd[1]), 4) \o << "-" >> \o padStart(NaturalText(ymd[2]), 2)
        \o << "-" >> \o padStart(NaturalText(ymd[3]), 2)

\* iso.slice(0, 10): the date part of an ISO string, which is the UTC date.
slice10(iso) == DateText(CivilFromDays(iso.date))

\* toDateKey reading the UTC date: iso.slice(0, 10).
toDateKeyUTC(tz, iso) == slice10(iso)

\* toDateKey: the local calendar date of an ISO string, as "YYYY-MM-DD".
toDateKey(tz, iso) == DateText(LocalDate(tz, DateParse(iso)))

---------------------------------------------------------------------------
\* csv.ts: the decoder

\* The values a plain object has under "constructor" and "__proto__": the
\* function Object and the object Object.prototype.  Neither is a string;
\* each is named here by what String() makes of it.
ObjectConstructor == "function Object() { [native code] }"
ObjectPrototype == "[object Object]"

\* The value of a property that is not there.
Undefined == "undefined"

\* CATEGORY_MAP[key]: CATEGORY_MAP is the plain object built by
\* Object.fromEntries from the lower-cased tags, so a key that is no tag is
\* looked up on Object.prototype, which holds "constructor" and "__proto__"
\* among its lower-case names.
CATEGORY_MAP(key) ==
    IF \E i \in 1..Len(CATEGORIES) : toLowerCase(Spell[CATEGORIES[i]]) = key
    THEN CATEGORIES[CHOOSE i \in 1..Len(CATEGORIES) : toLowerCase(Spell[CATEGORIES[i]]) = key]
    ELSE IF key = Spell.constructor THEN ObjectConstructor
    ELSE IF key = Spell.proto THEN ObjectPrototype
    ELSE Undefined

\* parseCSVLine, from character i on.
RECURSIVE parseCSVLineFrom(_, _, _, _, _)
parseCSVLineFrom(line, i, result, current, inQuotes) ==
    IF i > Len(line) THEN Append(result, trim(current))
    ELSE LET ch == line[i]
         IN  IF ch = "\""
             THEN parseCSVLineFrom(line, i + 1, result, current, ~inQuotes)
             ELSE IF (ch = "," /\ ~inQuotes) \/ ch = "\n" \/ ch = "\r"
             THEN IF ch # "\n" /\ ch # "\r"
                  THEN parseCSVLineFrom(line, i + 1, Append(result, trim(current)),
                                        << >>, inQuotes)
                  ELSE parseCSVLineFrom(line, i + 1, result, current, inQuotes)
             ELSE parseCSVLineFrom(line, i + 1, result,
                                   IF ch # "\r" THEN Append(current, ch) ELSE current,
                                   inQuotes)

parseCSVLine(line) == parseCSVLineFrom(line, 1, << >>, << >>, FALSE)

\* csvText.split(/\r?\n/)
RECURSIVE splitLines(_)
splitLines(text) ==
    IF \A i \in 1..Len(text) : text[i] # "\n" THEN << text >>
    ELSE LET n == CHOOSE i \in 1..Len(text) :
                     text[i] = "\n" /\ \A j \in 1..(i - 1) : text[j] # "\n"
             end == IF n > 1 /\ text[n - 1] = "\r" THEN n - 2 ELSE n - 1
         IN  << SubSeq(text, 1, end) >> \o splitLines(SubSeq(text, n + 1, Len(text)))

\* .filter((l) => l.trim())
RECURSIVE nonBlank(_)
nonBlank(lines) ==
    IF lines = << >> THEN << >>
    ELSE IF trim(Head(lines)) = << >> THEN nonBlank(Tail(lines))
    ELSE << Head(lines) >> \o nonBlank(Tail(lines))

\* lines[0]?.toLowerCase() includes "date" and "category": 1, else 0.
headerLines(lines) ==
    IF lines = << >> THEN 0
    ELSE IF includes(toLowerCase(lines[1]), Spell.date)
            /\ includes(toLowerCase(lines[1]), Spell.category) THEN 1
    ELSE 0

\* .replace(/^"|"$/g, "")
stripQuotes(s) ==
    LET t == IF s # << >> /\ s[1] = "\"" THEN Tail(s) ELSE s
    IN  IF t # << >> /\ t[Len(t)] = "\"" THEN SubSeq(t, 1, Len(t) - 1) ELSE t

\* .replace(/[^0-9.-]/g, "")
RECURSIVE numberChars(_)
numberChars(s) ==
    IF s = << >> THEN << >>
    ELSE IF IsDigit(Head(s)) \/ Head(s) \in { ".", "-" }
         THEN << Head(s) >> \o numberChars(Tail(s))
         ELSE numberChars(Tail(s))

\* The digits s starts with.
RECURSIVE leadingDigits(_)
leadingDigits(s) ==
    IF s = << >> \/ ~IsDigit(Head(s)) THEN << >>
    ELSE << Head(s) >> \o leadingDigits(Tail(s))

RECURSIVE digitsValue(_)
digitsValue(ds) ==
    IF ds = << >> THEN 0
    ELSE 10 * digitsValue(SubSeq(ds, 1, Len(ds) - 1)) + DigitValue(ds[Len(ds)])

\* parseInt in the place of Math.round(parseFloat()): the fraction is cut.
roundParseFloatCuts(s) ==
    LET neg == s # << >> /\ s[1] = "-"
        body == IF neg THEN Tail(s) ELSE s
        int == leadingDigits(body)
    IN  IF int = << >> THEN 0
        ELSE IF neg THEN 0 - digitsValue(int)
        ELSE digitsValue(int)

\* Math.round(parseFloat(s) || 0) for s made of digits, dots and minus signs.
\* parseFloat reads the longest prefix that is a decimal literal: a sign,
\* digits, a dot and digits; it is NaN when there is no digit.  Math.round
\* rounds a half towards +Infinity.
roundParseFloat(s) ==
    LET neg == s # << >> /\ s[1] = "-"
        body == IF neg THEN Tail(s) ELSE s
        int == leadingDigits(body)
        rest == SubSeq(body, Len(int) + 1, Len(body))
        frac == IF rest # << >> /\ rest[1] = "." THEN leadingDigits(Tail(rest)) ELSE << >>
        half == frac # << >> /\ DigitValue(frac[1]) >= 5
        overHalf == /\ frac # << >>
                    /\ \/ DigitValue(frac[1]) > 5
                       \/ /\ DigitValue(frac[1]) = 5
                          /\ \E i \in 2..Len(frac) : frac[i] # "0"
    IN  IF int = << >> /\ frac = << >> THEN 0
        ELSE IF neg THEN 0 - (digitsValue(int) + (IF overHalf THEN 1 ELSE 0))
        ELSE digitsValue(int) + (IF half THEN 1 ELSE 0)

\* The year, month and day a text "YYYY-MM-DD" names.
dateFields(s) ==
    << digitsValue(SubSeq(s, 1, 4)), digitsValue(SubSeq(s, 6, 7)),
       digitsValue(SubSeq(s, 9, 10)) >>

\* !Number.isNaN(new Date(dateStr).getTime()) for the date strings of the
\* inputs: a calendar date "YYYY-MM-DD" is a valid Date, and a text that is
\* no date at all is an invalid one.
isValidDate(s) ==
    /\ Len(s) = 10
    /\ s[5] = "-" /\ s[8] = "-"
    /\ \A i \in { 1, 2, 3, 4, 6, 7, 9, 10 } : IsDigit(s[i])
    /\ dateFields(s)[2] \in 1..12
    /\ dateFields(s)[3] >= 1
    /\ CivilFromDays(DaysFromCivil(dateFields(s))) = dateFields(s)

\* new Date("YYYY-MM-DD").getTime(): a date-only string is read as midnight
\* UTC of that day.
DateFromText(s) == DaysFromCivil(dateFields(s)) * HoursPerDay

\* The body of the loop of parseCSV for one line: the row it pushes, or no
\* row when it continues.
parseRow(tz, line) ==
    LET parts == parseCSVLine(line)
    IN  IF Len(parts) < 4 THEN << >>
        ELSE LET dateStr == trim(parts[1])
                 categoryStr == toLowerCase(trim(parts[2]))
                 note == stripQuotes(trim(join(SubSeq(parts, 3, Len(parts) - 1), << "," >>)))
                 amountNum == roundParseFloat(numberChars(parts[Len(parts)]))
                 date == DateFromText(dateStr)
             IN  IF ~isValidDate(dateStr) THEN << >>
                 ELSE IF amountNum <= 0 THEN << >>
                 ELSE LET localNoon == LocalNoon(tz, LocalDate(tz, date))
                          found == CATEGORY_MAP(categoryStr)
                      IN  << [ date |-> toISOString(localNoon),
                               category |-> IF found = Undefined THEN "others" ELSE found,
                               note |-> IF note = << >> THEN Spell.Imported ELSE note,
                               amount |-> amountNum ] >>

RECURSIVE parseRows(_, _)
parseRows(tz, lines) ==
    IF lines = << >> THEN << >>
    ELSE parseRow(tz, Head(lines)) \o parseRows(tz, Tail(lines))

\* parseCSV, run where the local time zone is tz.
parseCSV(tz, csvText) ==
    LET lines == nonBlank(splitLines(csvText))
        start == headerLines(lines)
    IN  parseRows(tz, SubSeq(lines, start + 1, Len(lines)))

---------------------------------------------------------------------------
\* storage.ts: the encoder

\* /[,"\n]/.test(s) ? `"${s.replace(/"/g, '""')}"` : s
RECURSIVE doubleQuotes(_)
doubleQuotes(s) ==
    IF s = << >> THEN << >>
    ELSE IF Head(s) = "\"" THEN << "\"", "\"" >> \o doubleQuotes(Tail(s))
    ELSE << Head(s) >> \o doubleQuotes(Tail(s))

\* escape wrapping the note as it is: inner double quotes stay single.
escapeKeepsQuotes(s) ==
    IF \E i \in 1..Len(s) : s[i] \in { ",", "\"", "\n" }
    THEN << "\"" >> \o s \o << "\"" >>
    ELSE s

escape(s) ==
    IF \E i \in 1..Len(s) : s[i] \in { ",", "\"", "\n" }
    THEN << "\"" >> \o doubleQuotes(s) \o << "\"" >>
    ELSE s

csvHeader ==
    Spell.date \o << "," >> \o Spell.category \o << "," >> \o Spell.note
        \o << "," >> \o Spell.amount

csvRow(e) ==
    slice10(e.createdAt) \o << "," >> \o Spell[e.category] \o << "," >>
        \o escape(IF "note" \in DOMAIN e THEN e.note ELSE << >>)
        \o << "," >> \o NumberText(e.amount)

exportToCSV(expenses) ==
    join(<< csvHeader >> \o [i \in 1..Len(expenses) |-> csvRow(expenses[i])], << "\n" >>)

---------------------------------------------------------------------------
\* The codec at work: inputs and calls

\* Notes of the records that are exported: plain, empty, with a comma, with
\* a double quote, with a newline, with a leading blank.
NoteTexts ==
    { << "T", "e", "a" >>, << >>, << "a", ",", "b" >>, << "a", "\"", "b" >>,
      << "a", "\n", "b" >>, << " ", "a" >> }

\* createdAt of the records that are exported: day 1 at 09:00 UTC and at
\* 20:00 UTC.
ExportTimes == { toISOString(StartClock), toISOString(StartClock + 11) }

ExportRecords ==
    { [amount |-> 80, category |-> "food", note |-> n, createdAt |-> t] :
        n \in NoteTexts, t \in ExportTimes }
    \cup { [amount |-> 5, category |-> "sasha", note |-> << "T", "e", "a" >>,
            createdAt |-> toISOString(StartClock)] }

\* The lists handed to exportToCSV; the record at position i has the id i.
ExportLists ==
    { [i \in 1..Len(q) |-> spread(q[i], [id |-> i])] : q \in SeqsUpTo(ExportRecords, MaxLen) }

\* Lines of pasted text.  Each comes with what the decoder is to make of it:
\* whether it is accepted and, if so, the calendar date, the category and the
\* amount of its row.
dataLine(date, category, note, amount) == join(<< date, category, note, amount >>, << "," >>)

PastedLines ==
    { [ text |-> dataLine(DateText(<< 2024, 1, 15 >>), Spell.food, << "L", "u", "n", "c", "h" >>,
                          NumberText(80)),
        ok |-> TRUE, ymd |-> << 2024, 1, 15 >>, category |-> "food", amount |-> 80 ],
      [ text |-> dataLine(DateText(<< 2024, 1, 15 >>),
                          << "u", "n", "k", "n", "o", "w", "n", "c", "a", "t" >>, << "X" >>,
                          NumberText(10)),
        ok |-> TRUE, ymd |-> << 2024, 1, 15 >>, category |-> "others", amount |-> 10 ],
      [ text |-> dataLine(DateText(<< 2024, 3, 1 >>), << " ", "F", "o", "o", "d" >>,
                          << "\"", "a", ",", "b", "\"" >>, << "1", "2", ".", "5" >>),
        ok |-> TRUE, ymd |-> << 2024, 3, 1 >>, category |-> "food", amount |-> 13 ],
      [ text |-> dataLine(DateText(<< 2024, 1, 16 >>), Spell.constructor, << "X" >>,
                          NumberText(7)),
        ok |-> TRUE, ymd |-> << 2024, 1, 16 >>, category |-> "others", amount |-> 7 ],
      [ text |-> << "g", "a", "r", "b", "a", "g", "e", ",", "g", "a", "r", "b", "a", "g", "e" >>,
        ok |-> FALSE ],
      [ text |-> dataLine(<< "g", "a", "r", "b", "a", "g", "e" >>, Spell.food, << "X" >>,
                          NumberText(10)),
        ok |-> FALSE ],
      [ text |-> dataLine(DateText(<< 2024, 1, 15 >>), Spell.food, << "X" >>, NumberText(0)),
        ok |-> FALSE ],
      [ text |-> dataLine(DateText(<< 2024, 1, 15 >>), Spell.food, << "X" >>,
                          << "-", "5" >>),
        ok |-> FALSE ],
      [ text |-> dataLine(DateText(<< 2024, 1, 15 >>), Spell.food, << "X" >>,
                          << "0", ".", "4" >>),
        ok |-> FALSE ],
      [ text |-> << " ", " " >>, ok |-> FALSE ] }

\* The line breaks of pasted text.
LineBreaks == { << "\n" >>, << "\r", "\n" >> }

\* The pasted text: the lines, after the header line when there is one.
pastedText(header, lines, break) ==
    join((IF header THEN << csvHeader >> ELSE << >>)
            \o [i \in 1..Len(lines) |-> lines[i].text], break)

PastedSeqs == SeqsUpTo(PastedLines, MaxRows)

\* What a run of the codec is given: records to export and read back, or
\* pasted text, and the time zone it runs in.
CodecInputs ==
    { [kind |-> "records", tz |-> tz, expenses |-> expenses] :
        tz \in Offsets, expenses \in ExportLists }
    \cup { [kind |-> "pasted", tz |-> tz, header |-> header, lines |-> lines,
            text |-> pastedText(header, lines, break)] :
             tz \in Offsets, header \in BOOLEAN, lines \in PastedSeqs, break \in LineBreaks }

InitCodec ==
    /\ storage = NoItem
    /\ now = StartClock
    /\ used = {}
    /\ last = [op |-> "init"]
    /\ input \in CodecInputs
    /\ ui = NotMounted

\* exportToCSV(expenses)
exportCSV ==
    /\ input.kind = "records"
    /\ last' = [op |-> "exportToCSV", ret |-> exportToCSV(input.expenses)]
    /\ UNCHANGED <<storage, now, used, input, ui>>

\* parseCSV(csvText) on the pasted text.
parsePasted ==
    /\ input.kind = "pasted"
    /\ last' = [op |-> "parseCSV", ret |-> parseCSV(input.tz, input.text)]
    /\ UNCHANGED <<storage, now, used, input, ui>>

\* parseCSV(csvText) on the text exportToCSV has returned.
parseExported ==
    /\ last.op = "exportToCSV"
    /\ last' = [op |-> "parseExported", ret |-> parseCSV(input.tz, last.ret)]
    /\ UNCHANGED <<storage, now, used, input, ui>>

NextCodec ==
    \/ exportCSV
    \/ parsePasted
    \/ parseExported

\* The codec, called once on each input.
SpecCodec == InitCodec /\ [][NextCodec]_vars

---------------------------------------------------------------------------
\* The aggregation views (ExpenseTracker)

\* The code unit of a character of a date key: a digit or "-".
charCode(ch) == IF IsDigit(ch) THEN 48 + DigitValue(ch) ELSE 45

\* a.localeCompare(b) for date keys: negative, zero or positive.
RECURSIVE localeCompare(_, _)
localeCompare(a, b) ==
    IF a = << >> /\ b = << >> THEN 0
    ELSE IF a = << >> THEN 0 - 1
    ELSE IF b = << >> THEN 1
    ELSE IF charCode(Head(a)) # charCode(Head(b)) THEN charCode(Head(a)) - charCode(Head(b))
    ELSE localeCompare(Tail(a), Tail(b))

\* keys.sort((a, b) => b.localeCompare(a))
RECURSIVE insertKey(_, _)
insertKey(sorted, key) ==
    IF sorted = << >> THEN << key >>
    ELSE IF localeCompare(key, Head(sorted)) <= 0
         THEN << Head(sorted) >> \o insertKey(Tail(sorted), key)
         ELSE << key >> \o sorted

RECURSIVE sortKeysDescending(_)
sortKeysDescending(keys) ==
    IF keys = << >> THEN << >>
    ELSE insertKey(sortKeysDescending(SubSeq(keys, 1, Len(keys) - 1)), keys[Len(keys)])

\* Array.from(map.keys()): the keys in the order they were first set.
RECURSIVE keysOf(_)
keysOf(keyed) ==
    IF keyed = << >> THEN << >>
    ELSE LET before == keysOf(SubSeq(keyed, 1, Len(keyed) - 1))
             key == keyed[Len(keyed)]
         IN  IF \E i \in 1..Len(before) : before[i] = key THEN before
             ELSE Append(before, key)

\* The elements of a list pushed under one key, in the order of the list.
RECURSIVE itemsOf(_, _, _)
itemsOf(expenses, keyed, key) ==
    IF expenses = << >> THEN << >>
    ELSE IF Head(keyed) = key
         THEN << Head(expenses) >> \o itemsOf(Tail(expenses), Tail(keyed), key)
         ELSE itemsOf(Tail(expenses), Tail(keyed), key)

\* items.reduce((sum, ex) => sum + ex.amount, 0)
RECURSIVE sumAmounts(_)
sumAmounts(items) ==
    IF items = << >> THEN 0
    ELSE sumAmounts(SubSeq(items, 1, Len(items) - 1)) + items[Len(items)].amount

\* The label stamped with the hour of the clock, as formatTime would.
getDayLabelStamped(tz, today, dateKey) ==
    [ words |-> "At", hour |-> (today + tz) % HoursPerDay, day |-> dateFields(dateKey) ]

\* getDayLabel, called when the clock reads today: "Today", "Yesterday", or
\* the weekday, month and day of the key, with the year when it is not the
\* year of the clock.
getDayLabel(tz, today, dateKey) ==
    LET d == LocalNoon(tz, dateFields(dateKey))
        todayKey == toDateKey(tz, toISOString(today))
        yesterdayKey == toDateKey(tz, toISOString(today - HoursPerDay))
    IN  IF dateKey = todayKey THEN [ words |-> "Today" ]
        ELSE IF dateKey = yesterdayKey THEN [ words |-> "Yesterday" ]
        ELSE IF LocalDate(tz, d)[1] # LocalDate(tz, today)[1]
        THEN [ weekday |-> getDay(tz, d), month |-> LocalDate(tz, d)[2],
               day |-> LocalDate(tz, d)[3], year |-> LocalDate(tz, d)[1] ]
        ELSE [ weekday |-> getDay(tz, d), month |-> LocalDate(tz, d)[2],
               day |-> LocalDate(tz, d)[3] ]

groupExpensesByDay(tz, today, expenses) ==
    LET keyed == [i \in 1..Len(expenses) |-> toDateKey(tz, expenses[i].createdAt)]
        keys == sortKeysDescending(keysOf(keyed))
    IN  [b \in 1..Len(keys) |->
            LET items == itemsOf(expenses, keyed, keys[b])
            IN  [ dateKey |-> keys[b], label |-> getDayLabel(tz, today, keys[b]),
                  total |-> sumAmounts(items), items |-> items ]]

Period == { "day", "week", "month" }

getPeriodKey(tz, iso, period) ==
    LET d == DateParse(iso)
    IN  IF period = "day" THEN DateText(LocalDate(tz, d))
        ELSE IF period = "month" THEN SubSeq(DateText(LocalDate(tz, d)), 1, 7)
        ELSE DateText(CivilFromDays(LocalDay(tz, d) - getDay(tz, d)))

\* The buckets the chart shows.
MaxBuckets == 14

\* keys.slice(-14): the last keys in the place of the first.
sliceKeysFromEnd(keys) ==
    SubSeq(keys, IF Len(keys) > MaxBuckets THEN Len(keys) - MaxBuckets + 1 ELSE 1, Len(keys))

\* keys.slice(0, 14)
sliceKeys(keys) == SubSeq(keys, 1, IF Len(keys) > MaxBuckets THEN MaxBuckets ELSE Len(keys))

\* The categories of a list of records.
categoriesOf(items) == { items[i].category : i \in 1..Len(items) }

\* Every record counted under every category.
ofCategoryAll(items, c) == items

\* The records of one category.
RECURSIVE ofCategory(_, _)
ofCategory(items, c) ==
    IF items = << >> THEN << >>
    ELSE IF Head(items).category = c THEN << Head(items) >> \o ofCategory(Tail(items), c)
    ELSE ofCategory(Tail(items), c)

\* The label of a bucket of groupByPeriod.
periodLabel(tz, today, key, period) ==
    IF period = "day" THEN getDayLabel(tz, today, key)
    ELSE IF period = "week"
    THEN LET start == DaysFromCivil(dateFields(key))
             end == start + 6
         IN  [ from |-> SubSeq(CivilFromDays(start), 2, 3),
               to |-> SubSeq(CivilFromDays(end), 2, 3) ]
    ELSE LET first == LocalDate(tz, DateFromText(key \o << "-", "0", "1" >>))
         IN  [ month |-> first[2], year |-> first[1] ]

groupByPeriod(tz, today, expenses, period) ==
    LET keyed == [i \in 1..Len(expenses) |-> getPeriodKey(tz, expenses[i].createdAt, period)]
        keys == sliceKeys(sortKeysDescending(keysOf(keyed)))
    IN  [b \in 1..Len(keys) |->
            LET items == itemsOf(expenses, keyed, keys[b])
            IN  [ key |-> keys[b], label |-> periodLabel(tz, today, keys[b], period),
                  total |-> sumAmounts(items),
                  byCategory |-> [c \in Category \cup categoriesOf(items) |->
                                      sumAmounts(ofCategory(items, c))] ]]

---------------------------------------------------------------------------
\* The views at work: inputs and calls

MaxShown == 3       \* longest list of the records below given to a view
MaxSpan == 20       \* most records of a list that has one record a month

\* Records a view is given: of noon of day 0, of the start of the clock, of
\* 11 hours later, and of a week later.
ViewRecords ==
    { [amount |-> 5,  category |-> "food",  note |-> "Lunch", createdAt |-> toISOString(12)],
      [amount |-> 80, category |-> "food",  note |-> "Lunch",
       createdAt |-> toISOString(StartClock)],
      [amount |-> 7,  category |-> "sasha", note |-> "Lunch",
       createdAt |-> toISOString(StartClock + 11)],
      [amount |-> 30, category |-> "food",  note |-> "Lunch",
       createdAt |-> toISOString(StartClock + DaysPerWeek * HoursPerDay)] }

\* One record every 31 days, from noon of day 0 on: n records in n months.
\* The i-th has the amount i.
monthly(n) ==
    [i \in 1..n |-> [amount |-> i, category |-> "food", note |-> "Lunch",
                     createdAt |-> toISOString(12 + (i - 1) * 31 * HoursPerDay)]]

\* The lists handed to the views; the record at position i has the id i.
ViewLists ==
    { [i \in 1..Len(q) |-> spread(q[i], [id |-> i])] :
        q \in SeqsUpTo(ViewRecords, MaxShown) \cup { monthly(n) : n \in 13..MaxSpan } }

ViewInputs ==
    { [kind |-> "records", tz |-> tz, expenses |-> expenses] :
        tz \in Offsets, expenses \in ViewLists }

InitViews ==
    /\ storage = NoItem
    /\ now = StartClock
    /\ used = {}
    /\ last = [op |-> "init"]
    /\ input \in ViewInputs
    /\ ui = NotMounted

\* groupExpensesByDay(expenses), with today the local date it read.
groupDay ==
    /\ last' = [op |-> "groupExpensesByDay", today |-> LocalDate(input.tz, now),
                ret |-> groupExpensesByDay(input.tz, now, input.expenses)]
    /\ UNCHANGED <<storage, now, used, input, ui>>

\* groupByPeriod(expenses, period)
groupPeriod(period) ==
    /\ last' = [op |-> "groupByPeriod", period |-> period,
                today |-> LocalDate(input.tz, now),
                ret |-> groupByPeriod(input.tz, now, input.expenses, period)]
    /\ UNCHANGED <<storage, now, used, input, ui>>

NextViews ==
    \/ groupDay
    \/ \E period \in Period : groupPeriod(period)
    \/ Tick

\* The views, called again and again on one list while the clock advances.
SpecViews == InitViews /\ [][NextViews]_vars

---------------------------------------------------------------------------
\* The component ExpenseTracker
\*
\* ui holds the state the handlers write and later steps read: the list
\* shown, the record being edited, the message of the import and the text
\* of the export.  The text fields of the forms (amount, category, note,
\* their edit counterparts and the pasted text) hold whatever the user has
\* typed when a handler runs: they are the handlers' inputs.

\* useState<Category | null>(null): no category is picked.
NoCategory == "null"

\* amount.replace(/,/g, ".")
replaceCommas(s) == [i \in 1..Len(s) |-> IF s[i] = "," THEN "." ELSE s[i]]

\* loadExpenses that reads the store for the effect only: after a handler
\* the list shown stays what it was.
loadExpensesOnce(page, raw) ==
    IF page.mounted THEN page ELSE [page EXCEPT !.expenses = getExpenses(raw)]

\* loadExpenses(): setExpenses(getExpenses()), on the payload raw.
loadExpenses(page, raw) == [page EXCEPT !.expenses = getExpenses(raw)]

\* What the amount fields, of type "number", may hold: nothing, a whole
\* number, a negative number, fractions.
AmountTexts ==
    { << >>, << "8", "0" >>, << "6", ".", "5" >>, << "-", "5" >>, << "0", ".", "4" >> }

\* The category of a form: none, or one picked from the buttons.
CategoryChoices == { NoCategory, "food" }

\* What the note fields may hold: blanks, or a note between blanks.
NoteFields == { << " ", " " >>, << " ", "T", "e", "a", " " >> }

\* What the import field may hold: blanks; the header alone; a header and
\* a record; and three lines of which the second has the amount 0 and the
\* third no note.
PasteTexts ==
    { << " ", "\n", " " >>,
      csvHeader,
      join(<< csvHeader,
              dataLine(DateText(<< 2024, 1, 15 >>), Spell.food,
                       << "L", "u", "n", "c", "h" >>, NumberText(80)) >>, << "\n" >>)
          \o << "\n" >>,
      join(<< dataLine(DateText(<< 2024, 1, 15 >>), Spell.food, << "X" >>, NumberText(10)),
              dataLine(DateText(<< 2024, 1, 16 >>), Spell.food, << "X" >>, NumberText(0)),
              dataLine(DateText(<< 2024, 1, 17 >>), Spell.sasha, << >>, NumberText(7)) >>,
           << "\n" >>) }

\* The page runs in one time zone, here one east of Greenwich: the zone
\* moves only the hour of the records parseCSV makes.
PageInputs == { [kind |-> "page", tz |-> tz] : tz \in { t \in Offsets : t > 0 } }

InitUI ==
    /\ storage = NoItem
    /\ now = StartClock
    /\ used = {}
    /\ last = [op |-> "init"]
    /\ input \in PageInputs
    /\ ui = NotMounted

\* useEffect(() => { loadExpenses(); }, [loadExpenses]): runs once, after
\* the first render and before the user can act.
mount ==
    /\ ~ui.mounted
    /\ ui' = [loadExpenses(ui, storage) EXCEPT !.mounted = TRUE]
    /\ last' = [op |-> "mount"]
    /\ UNCHANGED <<storage, now, used, input>>

\* startEdit(ex), for the record at position i of the list shown.
startEdit(i) ==
    /\ ui.mounted
    /\ i \in 1..Len(ui.expenses)
    /\ ui' = [ui EXCEPT !.editingId = ui.expenses[i].id]
    /\ last' = [op |-> "startEdit"]
    /\ UNCHANGED <<storage, now, used, input>>

\* cancelEdit()
cancelEdit ==
    /\ ui.mounted
    /\ ui' = [ui EXCEPT !.editingId = NoEdit]
    /\ last' = [op |-> "cancelEdit"]
    /\ UNCHANGED <<storage, now, used, input>>

\* saveEdit(), with the edit fields as the user left them.
saveEdit(editAmount, editCategory, editNote) ==
    LET num == roundParseFloat(replaceCommas(editAmount))
    IN  /\ ui.mounted
        /\ IF ui.editingId = NoEdit
              \/ num <= 0 \/ editCategory = NoCategory \/ trim(editNote) = << >>
           THEN /\ last' = [op |-> "saveEdit"]
                /\ UNCHANGED <<storage, now, used, input, ui>>
           ELSE /\ updateExpense(ui.editingId,
                                 [amount |-> num, category |-> editCategory,
                                  note |-> trim(editNote)])
                /\ ui' = [loadExpenses(ui, storage') EXCEPT !.editingId = NoEdit]

\* handleDelete that leaves editingId as it is.
handleDeleteKeepsEdit(id, confirmed) ==
    /\ ui.mounted
    /\ IF HasWindow /\ confirmed
       THEN /\ deleteExpense(id)
            /\ ui' = loadExpenses(ui, storage')
       ELSE /\ last' = [op |-> "handleDelete"]
            /\ UNCHANGED <<storage, now, used, input, ui>>

\* handleDelete(id); confirmed is the answer to window.confirm.
handleDelete(id, confirmed) ==
    /\ ui.mounted
    /\ IF HasWindow /\ confirmed
       THEN /\ deleteExpense(id)
            /\ ui' = [loadExpenses(ui, storage') EXCEPT
                         !.editingId = IF @ = id THEN NoEdit ELSE @]
       ELSE /\ last' = [op |-> "handleDelete"]
            /\ UNCHANGED <<storage, now, used, input, ui>>

\* handleSubmit without its three early returns.
handleSubmitUnchecked(amount, category, note) ==
    /\ ui.mounted
    /\ addExpense([amount |-> roundParseFloat(replaceCommas(amount)),
                   category |-> category, note |-> trim(note)])
    /\ ui' = loadExpenses(ui, storage')

\* handleSubmit(e), with the fields of the form as the user left them.
handleSubmit(amount, category, note) ==
    LET num == roundParseFloat(replaceCommas(amount))
        trimmedNote == trim(note)
    IN  /\ ui.mounted
        /\ IF num <= 0 \/ category = NoCategory \/ trimmedNote = << >>
           THEN /\ last' = [op |-> "handleSubmit"]
                /\ UNCHANGED <<storage, now, used, input, ui>>
           ELSE /\ addExpense([amount |-> num, category |-> category,
                               note |-> trimmedNote])
                /\ ui' = loadExpenses(ui, storage')

\* rows.map((r) => ({ amount, category, note, createdAt: r.date }))
importItems(rows) ==
    [i \in 1..Len(rows) |->
        [amount |-> rows[i].amount, category |-> rows[i].category,
         note |-> rows[i].note, createdAt |-> rows[i].date]]

\* The messages of handleImport.
PasteFirst == [type |-> "err", text |-> "Paste CSV first."]
NoValidRows == [type |-> "err", text |-> "No valid rows. Use columns: date,category,note,amount"]
ImportedCount(count) == [type |-> "ok", text |-> "Imported ${count} expense(s).", count |-> count]

\* handleImport reporting the number of lines pasted, blank ones apart, in
\* the place of what importExpenses returned.
handleImportCountsLines(importPaste) ==
    LET trimmed == trim(importPaste)
        rows == parseCSV(input.tz, trimmed)
    IN  /\ ui.mounted
        /\ IF trimmed = << >>
           THEN /\ ui' = [ui EXCEPT !.importMessage = PasteFirst]
                /\ last' = [op |-> "handleImport"]
                /\ UNCHANGED <<storage, now, used, input>>
           ELSE IF Len(rows) = 0
           THEN /\ ui' = [ui EXCEPT !.importMessage = NoValidRows]
                /\ last' = [op |-> "handleImport"]
                /\ UNCHANGED <<storage, now, used, input>>
           ELSE /\ importExpenses(importItems(rows))
                /\ ui' = [loadExpenses(ui, storage') EXCEPT
                             !.importMessage =
                                 ImportedCount(Len(nonBlank(splitLines(trimmed))))]

\* handleImport(), with the import field as the user left it.  Neither
\* parseCSV nor importExpenses throws in the model: the catch is not taken.
handleImport(importPaste) ==
    LET trimmed == trim(importPaste)
        rows == parseCSV(input.tz, trimmed)
    IN  /\ ui.mounted
        /\ IF trimmed = << >>
           THEN /\ ui' = [ui EXCEPT !.importMessage = PasteFirst]
                /\ last' = [op |-> "handleImport"]
                /\ UNCHANGED <<storage, now, used, input>>
           ELSE IF Len(rows) = 0
           THEN /\ ui' = [ui EXCEPT !.importMessage = NoValidRows]
                /\ last' = [op |-> "handleImport"]
                /\ UNCHANGED <<storage, now, used, input>>
           ELSE /\ importExpenses(importItems(rows))
                /\ ui' = [loadExpenses(ui, storage') EXCEPT
                             !.importMessage = ImportedCount(last'.ret)]

\* handleExportClick().  No handler reads exportText or showExport: what
\* they are set to is kept as what the call has produced.
handleExportClick ==
    /\ ui.mounted
    /\ last' = [op |-> "handleExportClick", exportText |-> exportToCSV(ui.expenses),
                showExport |-> TRUE]
    /\ UNCHANGED <<storage, now, used, input, ui>>

NextUI ==
    \/ mount
    \/ \E i \in 1..MaxLen : startEdit(i)
    \/ cancelEdit
    \/ \E editAmount \in AmountTexts, editCategory \in CategoryChoices, editNote \in NoteFields :
          saveEdit(editAmount, editCategory, editNote)
    \/ \E id \in Ids, confirmed \in BOOLEAN : handleDelete(id, confirmed)
    \/ \E amount \in AmountTexts, category \in CategoryChoices, note \in NoteFields :
          handleSubmit(amount, category, note)
    \/ \E importPaste \in PasteTexts : handleImport(importPaste)
    \/ handleExportClick
    \/ Tick

\* One component, alone on the store, from an empty store.
SpecUI == InitUI /\ [][NextUI]_vars

---------------------------------------------------------------------------
\* What the claims speak of

\* What list() returns in the current state, and after the step.
Stored == getExpenses(storage)
StoredAfter == getExpenses(storage')

RemoveAt(s, i) == SubSeq(s, 1, i - 1) \o SubSeq(s, i + 1, Len(s))

UniqueIds(l) == \A i, j \in 1..Len(l) : i # j => l[i].id # l[j].id

AmountsPositive(l) == \A i \in 1..Len(l) : l[i].amount > 0

WithoutId(e) == [k \in (DOMAIN e) \ {"id"} |-> e[k]]

---------------------------------------------------------------------------
\* C1: add(fields) returns a record r that carries the supplied amount,
\* category and note and whose id no stored record has; the next list() is
\* r followed by the previous records in their previous order.
C1_AddPrepends ==
    [][\A expense \in FieldInputs :
          addExpense(expense) =>
            LET r == last'.ret
            IN  /\ \A k \in Fields : r[k] = expense[k]
                /\ r.id \notin IdsOf(Stored)
                /\ StoredAfter = <<r>> \o Stored]_vars

\* An add has put its record in front of an earlier one.
C1_Witness ==
    /\ last.op = "add"
    /\ Len(Stored) = 2
    /\ Stored[1] = last.ret

\* C2: update of a stored id with any subset of {amount, category, note}
\* keeps the length and order of the list and every other record; the target
\* keeps its id, its createdAt and every field not supplied, and takes the
\* supplied ones.
C2_UpdateFrame ==
    [][last'.op = "update" =>
        LET before == Stored
            after == StoredAfter
        IN  \A id \in IdsOf(before) \cap {last'.id}, updates \in Updates :
                updateExpense(id, updates) =>
                    LET i == CHOOSE j \in 1..Len(before) : before[j].id = id
                    IN  /\ Len(after) = Len(before)
                        /\ \A j \in 1..Len(before) : j # i => after[j] = before[j]
                        /\ DOMAIN after[i] = DOMAIN before[i]
                        /\ after[i].id = before[i].id
                        /\ after[i].createdAt = before[i].createdAt
                        /\ \A k \in Fields :
                              after[i][k] =
                                IF k \in DOMAIN updates THEN updates[k]
                                ELSE before[i][k]]_vars

\* An update has changed the amount alone of the second of two records,
\* long after the record was created.
C2_Witness ==
    /\ last.op = "update"
    /\ last.ret # Null
    /\ Len(Stored) = 2
    /\ Stored[2] = last.ret
    /\ last.ret.amount = 0
    /\ last.ret.category = "food"
    /\ last.ret.note = "Lunch"
    /\ last.ret.createdAt # toISOString(now)

\* C3: update of an id that is not stored returns null and writes nothing:
\* the payload, and so the next list(), is what it was.
C3_UpdateNotFound ==
    [][last'.op = "update" =>
        \A id \in {last'.id} \ IdsOf(Stored), updates \in Updates :
            updateExpense(id, updates) =>
                /\ last'.ret = Null
                /\ storage' = storage
                /\ StoredAfter = Stored]_vars

\* An update of an unknown id has returned null while records are stored.
C3_Witness ==
    /\ last.op = "update"
    /\ last.ret = Null
    /\ Stored # << >>
    /\ last.id \notin IdsOf(Stored)

\* C4: delete(id) returns true exactly when the id was stored; the list is
\* then the previous list without that one record, the others in order; when
\* the id was not stored nothing is written; and the id is gone, so the same
\* delete again finds nothing to remove.
C4_Delete ==
    [][\A id \in Ids :
          deleteExpense(id) =>
            /\ last'.ret = (id \in IdsOf(Stored))
            /\ id \in IdsOf(Stored) =>
                  \E i \in 1..Len(Stored) :
                      /\ Stored[i].id = id
                      /\ StoredAfter = RemoveAt(Stored, i)
            /\ id \notin IdsOf(Stored) => storage' = storage
            /\ id \notin IdsOf(StoredAfter)]_vars

\* A delete has removed one of two records and kept the other.
C4_Witness ==
    /\ last.op = "delete"
    /\ last.ret = TRUE
    /\ Len(Stored) = 1
    /\ last.id \notin IdsOf(Stored)

\* C5: importBulk(rows) returns the number of rows; with no rows nothing is
\* written; otherwise the list holds every record it held, unchanged, and one
\* new record per row with the row's amount, category, note and createdAt,
\* and no id occurs twice in it.
C5_Import ==
    [][\A items \in RowSeqs :
          importExpenses(items) =>
            /\ last'.ret = Len(items)
            /\ Len(items) = 0 => storage' = storage
            /\ Len(items) > 0 =>
                  LET new == { j \in 1..Len(StoredAfter) :
                                  StoredAfter[j].id \notin IdsOf(Stored) }
                  IN  /\ Len(StoredAfter) = Len(Stored) + Len(items)
                      /\ UniqueIds(StoredAfter)
                      /\ \A i \in 1..Len(Stored) :
                            \E j \in 1..Len(StoredAfter) : StoredAfter[j] = Stored[i]
                      /\ \E f \in [1..Len(items) -> new] :
                            /\ \A a, b \in 1..Len(items) : a # b => f[a] # f[b]
                            /\ \A a \in 1..Len(items) :
                                  WithoutId(StoredAfter[f[a]]) = items[a]]_vars

\* An import of one row has joined a record that was already stored.
C5_Witness ==
    /\ last.op = "import"
    /\ last.ret = 1
    /\ Len(Stored) = 2

\* C6 as claimed: after any sequence of add, update, delete, importBulk and
\* replaceAll from an empty store, no two persisted records share an id.
C6_UniqueIdsAlways == UniqueIds(Stored)

\* replaceAll given a list that names an id twice.
ReplaceAllWithRepeatedId ==
    \E expenses \in SeqsUpTo(ReplaceRecords(used), MaxLen) :
        ~UniqueIds(expenses) /\ replaceAll(expenses)

\* C6, amended: the empty store has no repeated id, and the only store call
\* after which two persisted records share an id, when none did before it, is
\* a replaceAll whose argument names an id twice.
C6_UniqueIdsKept ==
    /\ UniqueIds(Stored)
    /\ [][(UniqueIds(Stored) /\ ~UniqueIds(StoredAfter)) => ReplaceAllWithRepeatedId]_vars

\* A replaceAll has written two records with distinct ids.
C6_Witness ==
    /\ last.op = "replaceAll"
    /\ Len(Stored) = 2
    /\ UniqueIds(Stored)

\* C7 as claimed: after any sequence of store operations every persisted
\* record has amount > 0.
C7_AmountsPositiveAlways == AmountsPositive(Stored)

\* A store call all of whose supplied amounts are > 0.
CallWithPositiveAmounts ==
    \/ \E expense \in FieldInputs : expense.amount > 0 /\ addExpense(expense)
    \/ \E id \in Ids, updates \in Updates :
          /\ "amount" \in DOMAIN updates => updates.amount > 0
          /\ updateExpense(id, updates)
    \/ \E id \in Ids : deleteExpense(id)
    \/ \E items \in RowSeqs : AmountsPositive(items) /\ importExpenses(items)
    \/ \E expenses \in SeqsUpTo(ReplaceRecords(used), MaxLen) :
          AmountsPositive(expenses) /\ replaceAll(expenses)
    \/ list
    \/ Tick

\* C7, amended: the store persists the amounts it is given.  A call after
\* which some persisted amount is <= 0, when none was before it, is not a call
\* whose supplied amounts are all > 0.
C7_AmountsPositiveKept ==
    [][(AmountsPositive(Stored) /\ ~AmountsPositive(StoredAfter))
          => ~CallWithPositiveAmounts]_vars

\* An update that supplied no amount has left two positive amounts stored.
C7_Witness ==
    /\ last.op = "update"
    /\ last.ret # Null
    /\ last.ret.category = "others"
    /\ Len(Stored) = 2
    /\ AmountsPositive(Stored)

\* C8 as claimed: after any sequence of add, update, delete and importBulk,
\* under a clock that never goes back, list() is most-recent-first: no
\* record is older than the one after it.
C8_MostRecentFirst ==
    \A i \in 1..(Len(Stored) - 1) :
        DateParse(Stored[i].createdAt) >= DateParse(Stored[i + 1].createdAt)

\* What C9 says of a payload that parses to an array: list() returns one
\* record per element, in stored order, each with the element's fields and
\* with the note "" when the element has none.
ArrayReadBack(items, ret) ==
    /\ Len(ret) = Len(items)
    /\ \A i \in 1..Len(items) :
          /\ items[i] # Null
          /\ DOMAIN ret[i] = (DOMAIN items[i]) \cup {"note"}
          /\ \A k \in (DOMAIN items[i]) \ {"note"} : ret[i][k] = items[i][k]
          /\ ret[i].note = IF "note" \in DOMAIN items[i] THEN items[i].note ELSE ""

\* C9 as claimed: list() is empty when the key is absent, the payload does
\* not parse or is no array, and otherwise returns the stored records in
\* stored order, an absent note replaced by "".
C9_ListAsClaimed ==
    last.op = "list" =>
        IF storage.kind # "array" THEN last.ret = << >>
        ELSE ArrayReadBack(storage.items, last.ret)

\* C9, amended: list() is also empty when the parsed array holds a null
\* (reading its note throws inside the guarded block); in every other case
\* it is as claimed.
C9_ListTotal ==
    last.op = "list" =>
        IF storage.kind # "array" THEN last.ret = << >>
        ELSE IF \E i \in 1..Len(storage.items) : storage.items[i] = Null
             THEN last.ret = << >>
             ELSE ArrayReadBack(storage.items, last.ret)

\* list() has returned two records of a payload whose second has no note.
C9_Witness ==
    /\ last.op = "list"
    /\ storage.kind = "array"
    /\ Len(last.ret) = 2
    /\ "note" \notin DOMAIN storage.items[2]
    /\ last.ret[2].note = ""

\* C10: an id that was removed by delete never comes back: delete leaves an
\* id that was handed out and is not stored, and no add, update or importBulk
\* stores an id that was handed out and is not stored.
C10_IdsNeverReused ==
    [][/\ \A id \in Ids :
            (id \in IdsOf(Stored) /\ deleteExpense(id)) =>
                (id \in used' /\ id \notin IdsOf(StoredAfter))
       /\ \A x \in used \ IdsOf(Stored) : x \notin IdsOf(StoredAfter)]_vars

\* An update of a deleted id has returned null, and the id is not stored.
C10_Witness ==
    /\ last.op = "update"
    /\ last.ret = Null
    /\ last.id \in used
    /\ last.id \notin IdsOf(Stored)
    /\ Stored # << >>

---------------------------------------------------------------------------
\* What the claims on the codec speak of

\* The lines of the pasted text that the decoder is to accept, in order.
RECURSIVE AcceptedLines(_)
AcceptedLines(lines) ==
    IF lines = << >> THEN << >>
    ELSE IF Head(lines).ok THEN << Head(lines) >> \o AcceptedLines(Tail(lines))
    ELSE AcceptedLines(Tail(lines))

\* The hour of the local day at which an ISO string lies.
LocalHour(tz, iso) == (DateParse(iso) + tz) % HoursPerDay

\* C11: parseCSV(exportToCSV(records)) has one row per record, in the same
\* order, with the record's amount, category and note, for records with any
\* note: empty, with commas, double quotes, newlines or blanks around it.
C11_RoundTripFields ==
    last.op = "parseExported" =>
        /\ Len(last.ret) = Len(input.expenses)
        /\ \A i \in 1..Len(input.expenses) :
              /\ last.ret[i].amount = input.expenses[i].amount
              /\ last.ret[i].category = input.expenses[i].category
              /\ last.ret[i].note = input.expenses[i].note

\* C12: in every time zone, the row read back from a record's exported line
\* is dated noon of the local calendar day of the record's createdAt.  (The
\* records taken are those whose lines come back one by one: no note holds a
\* newline.)
C12_RoundTripDates ==
    ( /\ last.op = "parseExported"
      /\ \A i \in 1..Len(input.expenses) :
            \A k \in 1..Len(input.expenses[i].note) : input.expenses[i].note[k] # "\n" )
    => /\ Len(last.ret) = Len(input.expenses)
       /\ \A i \in 1..Len(input.expenses) :
             /\ LocalDate(input.tz, DateParse(last.ret[i].date))
                    = LocalDate(input.tz, DateParse(input.expenses[i].createdAt))
             /\ LocalHour(input.tz, last.ret[i].date) = 12

\* C13: in every time zone, the row of an accepted line whose date field is
\* YYYY-MM-DD is dated 12:00 local time of that same calendar day.
C13_LocalNoonSameDay ==
    last.op = "parseCSV" =>
        LET accepted == AcceptedLines(input.lines)
        IN  \A i \in 1..Len(last.ret) :
                i <= Len(accepted) =>
                    /\ LocalDate(input.tz, DateParse(last.ret[i].date)) = accepted[i].ymd
                    /\ LocalHour(input.tz, last.ret[i].date) = 12

\* C14: the category of every emitted row is a member of the category
\* enumeration: the member that equals the line's category string ignoring
\* case, and "others" when there is none.
C14_CategoryInEnumeration ==
    last.op = "parseCSV" =>
        LET accepted == AcceptedLines(input.lines)
        IN  \A i \in 1..Len(last.ret) :
                /\ last.ret[i].category \in Category
                /\ i <= Len(accepted) => last.ret[i].category = accepted[i].category

RECURSIVE NoteAsClaimed(_, _)
NoteAsClaimed(note, quoted) ==
    IF note = << >> THEN << >>
    ELSE NoteAsClaimed(SubSeq(note, 1, Len(note) - 1), quoted)
            \o (IF quoted /\ note[Len(note)] = "\"" THEN << "\"", "\"" >>
                ELSE << note[Len(note)] >>)

EntryAsClaimed(e) ==
    LET special == { k \in 1..Len(e.note) : e.note[k] \in { ",", "\"", "\n" } }
        written == NoteAsClaimed(e.note, special # {})
    IN  DateText(CivilFromDays(e.createdAt.date)) \o << "," >> \o Spell[e.category]
            \o << "," >>
            \o (IF special # {} THEN << "\"" >> \o written \o << "\"" >> ELSE written)
            \o << "," >> \o NumberText(e.amount)

RECURSIVE EntriesAsClaimed(_)
EntriesAsClaimed(expenses) ==
    IF expenses = << >> THEN << >>
    ELSE << "\n" >> \o EntryAsClaimed(Head(expenses)) \o EntriesAsClaimed(Tail(expenses))

\* C16: exportToCSV returns the header line date,category,note,amount and
\* then, each after one newline, one entry per record in the order of the
\* list, with no newline at the end; an entry is the first 10 characters of
\* createdAt, the category, the note and the amount, the note in double
\* quotes with its double quotes doubled exactly when it holds a comma, a
\* double quote or a newline.
C16_ExportFormat ==
    last.op = "exportToCSV" =>
        last.ret = << "d", "a", "t", "e", ",", "c", "a", "t", "e", "g", "o", "r", "y", ",",
                      "n", "o", "t", "e", ",", "a", "m", "o", "u", "n", "t" >>
                   \o EntriesAsClaimed(input.expenses)

\* Two records have been exported, the first with a double quote in its
\* note, the second with a plain note.
C16_Witness ==
    /\ last.op = "exportToCSV"
    /\ Len(input.expenses) = 2
    /\ \E k \in 1..Len(input.expenses[1].note) : input.expenses[1].note[k] = "\""
    /\ input.expenses[2].note = << "T", "e", "a" >>

---------------------------------------------------------------------------
\* What the claims on the views speak of

\* The sum of the amounts of a list of records.
RECURSIVE AmountsSum(_)
AmountsSum(items) ==
    IF items = << >> THEN 0 ELSE Head(items).amount + AmountsSum(Tail(items))

\* The day a date key "YYYY-MM-DD" or a month key "YYYY-MM" names, or begins
\* with, counted from 1970-01-01.
KeyDay(key) ==
    IF Len(key) = 7 THEN DaysFromCivil(dateFields(key \o << "-", "0", "1" >>))
    ELSE DaysFromCivil(dateFields(key))

\* The first local day of the period an instant lies in: the day itself, the
\* Sunday on or before it, the first of its month.
PeriodStart(tz, iso, period) ==
    LET day == LocalDay(tz, DateParse(iso))
    IN  IF period = "day" THEN day
        ELSE IF period = "week"
        THEN CHOOSE s \in (day - 6)..day : (s + 4) % 7 = 0
        ELSE DaysFromCivil(<< CivilFromDays(day)[1], CivilFromDays(day)[2], 1 >>)

\* C17: group-by-day puts every record in exactly one bucket, the bucket of
\* its local calendar date; the bucket keys are distinct and newest first;
\* a bucket's total is the sum of the amounts of its records; the records of
\* a bucket are in the order they have in the list.
C17_DayPartition ==
    last.op = "groupExpensesByDay" =>
        LET expenses == input.expenses
            buckets == last.ret
            holds(b, e) == \E k \in 1..Len(buckets[b].items) : buckets[b].items[k] = e
        IN  /\ \A i \in 1..Len(expenses) :
                  /\ Cardinality({ b \in 1..Len(buckets) : holds(b, expenses[i]) }) = 1
                  /\ \A b \in 1..Len(buckets) :
                        holds(b, expenses[i]) =>
                            /\ KeyDay(buckets[b].dateKey)
                                  = LocalDay(input.tz, DateParse(expenses[i].createdAt))
                            /\ buckets[b].dateKey = DateText(CivilFromDays(KeyDay(buckets[b].dateKey)))
            /\ \A b \in 1..Len(buckets) :
                  LET key == buckets[b].dateKey
                      Here(e) == LocalDay(input.tz, DateParse(e.createdAt)) = KeyDay(key)
                  IN  /\ buckets[b].items = SelectSeq(expenses, Here)
                      /\ buckets[b].items # << >>
                      /\ buckets[b].total = AmountsSum(buckets[b].items)
            /\ \A b \in 1..(Len(buckets) - 1) :
                  KeyDay(buckets[b].dateKey) > KeyDay(buckets[b + 1].dateKey)

\* Three records of two local dates have been put in two buckets, one of
\* them under a date that is not its UTC date.
C17_Witness ==
    /\ last.op = "groupExpensesByDay"
    /\ Len(input.expenses) = 3
    /\ Len(last.ret) = 2
    /\ Len(last.ret[1].items) = 2
    /\ last.ret[1].items[1].id < last.ret[1].items[2].id
    /\ \E b \in 1..2 : last.ret[b].dateKey # slice10(last.ret[b].items[1].createdAt)

\* C18: group-by-period returns min(14, number of periods) buckets: those of
\* the most recent periods, newest first, each with the sum of the amounts of
\* all the records of its period.
C18_PeriodBuckets ==
    last.op = "groupByPeriod" =>
        LET expenses == input.expenses
            buckets == last.ret
            starts == { PeriodStart(input.tz, expenses[i].createdAt, last.period) :
                          i \in 1..Len(expenses) }
            shown == { KeyDay(buckets[b].key) : b \in 1..Len(buckets) }
        IN  /\ Len(buckets) = IF Cardinality(starts) > 14 THEN 14 ELSE Cardinality(starts)
            /\ shown \subseteq starts
            /\ \A s \in starts \ shown : \A t \in shown : s < t
            /\ \A b \in 1..(Len(buckets) - 1) :
                  KeyDay(buckets[b].key) > KeyDay(buckets[b + 1].key)
            /\ \A b \in 1..Len(buckets) :
                  LET In(e) == PeriodStart(input.tz, e.createdAt, last.period)
                                  = KeyDay(buckets[b].key)
                  IN  buckets[b].total = AmountsSum(SelectSeq(expenses, In))

\* Of 20 records in 20 months, group-by-period by month has returned the 14
\* latest: the first bucket is that of the 20th, the last that of the 7th.
C18_Witness ==
    /\ last.op = "groupByPeriod"
    /\ last.period = "month"
    /\ Len(input.expenses) = 20
    /\ Len(last.ret) = 14
    /\ last.ret[1].total = 20
    /\ last.ret[14].total = 7

\* A view is called again: the same view, and the same period, as the call
\* before.
CalledAgain ==
    /\ last.op \in { "groupExpensesByDay", "groupByPeriod" }
    /\ last'.op = last.op
    /\ last.op = "groupByPeriod" => last'.period = last.period

\* A bucket without its label.
WithoutLabel(bucket) == [k \in (DOMAIN bucket) \ {"label"} |-> bucket[k]]

\* C19 as claimed: a view called twice on the same list returns the same
\* keys, labels, totals and records, whatever happens between the calls, the
\* clock passing local midnight included, and the calls leave the persisted
\* list and the list they are given as they were.
C19_SameOutputAlways ==
    [][CalledAgain =>
          /\ last'.ret = last.ret
          /\ storage' = storage
          /\ input' = input]_vars

\* C19, amended: the keys, totals and records are the same whatever happens
\* between the calls, and so are the labels when both calls are made on the
\* same local date; the calls leave the persisted list and the list they are
\* given as they were.
C19_SameOutputSameDay ==
    [][CalledAgain =>
          /\ Len(last'.ret) = Len(last.ret)
          /\ \A b \in 1..Len(last.ret) : WithoutLabel(last'.ret[b]) = WithoutLabel(last.ret[b])
          /\ last'.today = last.today => last'.ret = last.ret
          /\ storage' = storage
          /\ input' = input]_vars

\* Group-by-day has been called after the clock passed local midnight: the
\* bucket of the day before is labelled "Yesterday".
C19_Witness ==
    /\ last.op = "groupExpensesByDay"
    /\ now = StartClock + 1
    /\ LocalDay(input.tz, now) # LocalDay(input.tz, StartClock)
    /\ last.ret # << >>
    /\ last.ret[1].label = [words |-> "Yesterday"]

---------------------------------------------------------------------------
\* The store operations that write.
Mutations == { "add", "update", "delete", "import" }

\* C20 as claimed: of two mutations issued one right after the other, with
\* no list() between them, the effect of the first is lost: the record an add
\* has stored is not in the persisted list after the mutation that follows.
C20_FirstMutationLost ==
    [][(last.op = "add" /\ last'.op \in Mutations)
          => last.ret.id \notin IdsOf(StoredAfter)]_vars

\* C20, amended: every mutation reads the persisted list itself, so of two
\* mutations issued one right after the other the second works on what the
\* first has written: the record the first has added or updated is stored,
\* the id it has removed is not, and after the second every stored record
\* but the one the second is to update or delete is still stored, and a
\* removed id is still gone.
C20_FirstMutationKept ==
    [][(last.op \in Mutations /\ last'.op \in Mutations) =>
          /\ last.op = "add" => Stored # << >> /\ Stored[1] = last.ret
          /\ (last.op = "update" /\ last.ret # Null) =>
                \E i \in 1..Len(Stored) : Stored[i] = last.ret
          /\ (last.op = "delete" /\ last.ret) =>
                (last.id \notin IdsOf(Stored) /\ last.id \notin IdsOf(StoredAfter))
          /\ \A i \in 1..Len(Stored) :
                (last'.op \in { "update", "delete" } => Stored[i].id # last'.id)
                   => \E j \in 1..Len(StoredAfter) : StoredAfter[j] = Stored[i]]_vars

\* Two adds within the same hour: the record of the first is stored behind
\* the record of the second.
C20_Witness ==
    /\ last.op = "add"
    /\ Len(Stored) = 2
    /\ Stored[1] = last.ret
    /\ Stored[2].createdAt = Stored[1].createdAt
    /\ Stored[2].id # Stored[1].id

---------------------------------------------------------------------------
\* importBulk re-sorts the whole list

\* C21: immediately after importBulk with at least one row, the whole
\* persisted list, existing records included, is in non-increasing createdAt
\* order, whatever order the existing list and the rows were in before.
C21_ImportSortsAll ==
    [][\A items \in RowSeqs :
          (Len(items) > 0 /\ importExpenses(items)) =>
             \A i \in 1..(Len(StoredAfter) - 1) :
                DateParse(StoredAfter[i].createdAt)
                   >= DateParse(StoredAfter[i + 1].createdAt)]_vars

\* An import of one row has put its record between two records of an
\* earlier session, the newer of them first.
C21_Witness ==
    /\ last.op = "import"
    /\ last.ret = 1
    /\ Len(Stored) = 3
    /\ Stored[1].id \in OldIds
    /\ Stored[2].id \in Ids
    /\ Stored[3].id \in OldIds
    /\ DateParse(Stored[1].createdAt) > DateParse(Stored[2].createdAt)
    /\ DateParse(Stored[2].createdAt) > DateParse(Stored[3].createdAt)

---------------------------------------------------------------------------
\* Commas and newlines between double quotes

\* The note holds a comma or a newline, so that the encoder quotes it, and
\* no double quote and no blank around it.
NeedsQuotes(note) ==
    /\ includes(note, << "," >>) \/ includes(note, << "\n" >>)
    /\ ~includes(note, << "\"" >>)
    /\ trim(note) = note

\* C22 as claimed: a comma or a newline between a pair of double quotes
\* never splits the input.  Records whose quoted notes hold a comma or a
\* newline are decoded as one row each, with the note as one field, and the
\* fields are trimmed of surrounding whitespace.
C22_QuotedNeverSplits ==
    (/\ last.op = "parseExported"
     /\ \A i \in 1..Len(input.expenses) : NeedsQuotes(input.expenses[i].note)) =>
        /\ Len(last.ret) = Len(input.expenses)
        /\ \A i \in 1..Len(input.expenses) :
              /\ last.ret[i].note = input.expenses[i].note
              /\ trim(last.ret[i].note) = last.ret[i].note

---------------------------------------------------------------------------
\* The per-category mapping of a bucket

\* The sum of the entries of a mapping over the keys S.
RECURSIVE EntriesSum(_, _)
EntriesSum(m, S) ==
    IF S = {} THEN 0
    ELSE LET c == CHOOSE x \in S : TRUE
         IN  m[c] + EntriesSum(m, S \ {c})

\* C23: in every bucket returned by group-by-period, the per-category
\* mapping has an entry for every category of the enumeration, zero when the
\* bucket has no record of that category; every entry is >= 0 for positive
\* amounts; and the entries sum to the bucket's total.
C23_ByCategory ==
    last.op = "groupByPeriod" =>
        \A b \in 1..Len(last.ret) :
            LET bucket == last.ret[b]
                In(e) == PeriodStart(input.tz, e.createdAt, last.period) = KeyDay(bucket.key)
                items == SelectSeq(input.expenses, In)
            IN  /\ Category \subseteq DOMAIN bucket.byCategory
                /\ \A c \in Category :
                      (\A i \in 1..Len(items) : items[i].category # c)
                         => bucket.byCategory[c] = 0
                /\ \A c \in DOMAIN bucket.byCategory : bucket.byCategory[c] >= 0
                /\ EntriesSum(bucket.byCategory, DOMAIN bucket.byCategory) = bucket.total

\* A bucket with records of two categories: both entries are positive, a
\* third is zero, and the two add up to the total.
C23_Witness ==
    /\ last.op = "groupByPeriod"
    /\ \E b \in 1..Len(last.ret) :
          /\ last.ret[b].byCategory["food"] > 0
          /\ last.ret[b].byCategory["sasha"] > 0
          /\ last.ret[b].byCategory["others"] = 0
          /\ last.ret[b].total
                = last.ret[b].byCategory["food"] + last.ret[b].byCategory["sasha"]

---------------------------------------------------------------------------
\* The component on the store

\* The amount a form field holds, as the handlers read it.
FieldAmount(text) == roundParseFloat(replaceCommas(text))

\* A form the handlers are to turn down: a non-positive amount, no
\* category or a blank note.
Invalid(amount, category, note) ==
    \/ FieldAmount(amount) <= 0
    \/ category = NoCategory
    \/ trim(note) = << >>

C25_ShownIsStored ==
    /\ ui.mounted => ui.expenses = Stored
    /\ last.op = "handleExportClick" => last.exportText = exportToCSV(Stored)

\* The export was asked for after an import had brought the list to two
\* records.
C25_Witness ==
    /\ last.op = "handleExportClick"
    /\ ui.importMessage.type = "ok"
    /\ Len(ui.expenses) = 2

C27_EditingIdStored ==
    [][/\ ui'.editingId = NoEdit \/ ui'.editingId \in IdsOf(StoredAfter)
       /\ \A id \in Ids :
             (ui.editingId = id /\ handleDelete(id, TRUE)) => ui'.editingId = NoEdit
       /\ \A editAmount \in AmountTexts, editCategory \in CategoryChoices,
             editNote \in NoteFields :
             (/\ last'.op \in { "saveEdit", "update" }
              /\ ~Invalid(editAmount, editCategory, editNote)
              /\ saveEdit(editAmount, editCategory, editNote)) => ui'.editingId = NoEdit]_vars

\* One of two records was deleted while the other was being edited: the
\* edit is still open, on the record that is left.
C27_Witness ==
    /\ last.op = "delete"
    /\ last.ret
    /\ Len(Stored) = 1
    /\ ui.editingId = Stored[1].id

====
